---- MODULE Spec2Model ----
(***************************************************************************)
(* The configurator store (useConfiguratorStore, the zustand store with    *)
(* mode/pose and lockedGroups) together with the UI components that drive  *)
(* it (UI, AssetsBox, ColorPicker, PosesBox, RandomizeButton).             *)
(*                                                                         *)
(* JavaScript values are modelled as follows.                              *)
(*   - null and undefined are the strings Null and Undefined; a property   *)
(*     that was never written reads as Undefined.                          *)
(*   - an asset object is referred to by its id; AssetById gives its       *)
(*     record, as the object held in customization would.                  *)
(*   - a JS object whose key order is observable (customization, read by   *)
(*     Object.values) is a sequence of entries in insertion order.         *)
(*   - lockedGroups, read by key only, is a function from its keys.        *)
(*   - the skin material colour is the integer THREE.Color holds.          *)
(***************************************************************************)
EXTENDS Integers, Sequences, FiniteSets, TLC

VARIABLES
    remote,             \* which catalog the backend serves in this session
    mode,               \* UI_MODES value
    pose,               \* PHOTO_POSES value
    categories,         \* loaded categories, each joined with its assets
    currentCategory,    \* name of the current category, or Null
    assets,             \* loaded assets
    lockedGroups,       \* category name -> sequence of {name, categoryName}
    skin,               \* colour of the shared skin material
    customization,      \* sequence of [key, asset, color] in insertion order
    pending,            \* fetchCategories calls waiting for the backend
    mounted,            \* whether the UI has rendered for the first time
    error               \* outcome of the most recent handler (Running inside one)

vars == <<remote, mode, pose, categories, currentCategory, assets, lockedGroups,
          skin, customization, pending, mounted, error>>

store == <<categories, currentCategory, assets, lockedGroups, skin, customization>>

----------------------------------------------------------------------------
(* Bounds *)

\* fetchCategories calls that may be waiting for the backend at one time
MaxPending == 2

----------------------------------------------------------------------------
(* JavaScript values and program constants *)

Null == "null"
Undefined == "undefined"
EmptyString == ""

NoError == "none"
TypeError == "TypeError"
FetchError == "FetchError"

UI_MODES == [PHOTO |-> "photo", CUSTOMIZE |-> "customize"]

\* IDLE and one other pose stand for the seven poses of the source.
PHOTO_POSES == [IDLE |-> "Idle", CHILL |-> "Chill"]

Poses == {PHOTO_POSES.IDLE, PHOTO_POSES.CHILL}

Modes == {UI_MODES.PHOTO, UI_MODES.CUSTOMIZE}

SkinDriver == "Head"

\* 0xf5c6a5
DefaultSkin == 16106149

\* THREE.Color's reading of a CSS colour string as a hex integer.
ColorHex ==
    ("red" :> 16711680) @@ ("blue" :> 255) @@ ("tan" :> 13808780)
    @@ ("pink" :> 16761035) @@ ("#112233" :> 1122867)

\* THREE.Color.set(value): a string that names a colour is parsed; anything
\* else (undefined, the empty string) leaves the colour as it is.
ColorSet(current, value) ==
    IF value \in DOMAIN ColorHex THEN ColorHex[value] ELSE current

----------------------------------------------------------------------------
(* The backend's record sets.  Categories come sorted by position, assets  *)
(* by creation time, newest first.  colorPalette is the relation id ("" if *)
(* unset) and colors the expanded palette's colours.                       *)

Remotes == {1, 2, 3, 4}

Category(id, name, removable, startingAsset, colorPalette, colors) ==
    [id |-> id, name |-> name, removable |-> removable,
     startingAsset |-> startingAsset, colorPalette |-> colorPalette,
     colors |-> colors]

\* url is the record's model file; every asset record has one.
AssetRec(id, group, name, locked) ==
    [id |-> id, group |-> group, name |-> name, lockedGroups |-> locked,
     url |-> id \o ".glb"]

RemoteCategories(r) ==
    CASE r = 1 ->
           << Category("gHead", "Head", FALSE, "head1", "pSkin", <<"tan", "pink">>),
              Category("gHat", "Hat", TRUE, "", "pHat", <<"red", "blue">>) >>
      [] r = 2 ->
           << Category("gTop", "Top", FALSE, "", "", <<>>),
              Category("gSuit", "Suit", TRUE, "", "pSuit", <<"red">>),
              Category("gCape", "Cape", TRUE, "cape1", "", <<>>) >>
      [] r = 3 ->
           << Category("gHead", "Head", FALSE, "", "", <<>>),
              Category("gHat", "Hat", TRUE, "", "pHat", <<"red", "blue">>) >>
      [] r = 4 ->
           << Category("gBag", "Bag", TRUE, "", "", <<>>),
              Category("gRing", "Ring", FALSE, "", "", <<>>) >>

RemoteAssets(r) ==
    CASE r = 1 ->
           << AssetRec("hat2", "gHat", "Beret", <<>>),
              AssetRec("hat1", "gHat", "Helmet", <<"gHead">>),
              AssetRec("head1", "gHead", "Oval", <<>>) >>
      [] r = 2 ->
           << AssetRec("cape1", "gCape", "Cloak", <<"gTop", "gSuit">>),
              AssetRec("suit1", "gSuit", "Armor", <<"gTop">>) >>
      [] r = 3 ->
           << AssetRec("head9", "gHead", "Visor", <<"gGone">>),
              AssetRec("hat9", "gHat", "Hood", <<"gHead">>) >>
      [] r = 4 ->
           << AssetRec("ring1", "gRing", "Band", <<"gBag">>) >>

Range(s) == {s[i] : i \in DOMAIN s}

AllAssets == UNION {Range(RemoteAssets(r)) : r \in Remotes}

\* The asset object behind a reference held in customization.
AssetById(id) == CHOOSE a \in AllAssets : a.id = id

IsAsset(ref) == ref # Null /\ ref # Undefined

\* A category name no catalog has, for calls with an unknown category.
UnknownCategory == "Ghost"

\* A valid colour that is in no palette.
ForeignColor == "#112233"

----------------------------------------------------------------------------
(* Objects with insertion-ordered keys *)

Keys(obj) == {obj[i].key : i \in DOMAIN obj}

\* obj[key], with absent properties reading as undefined.
Get(obj, key) ==
    IF key \in Keys(obj)
    THEN LET i == CHOOSE j \in DOMAIN obj : obj[j].key = key
         IN [asset |-> obj[i].asset, color |-> obj[i].color]
    ELSE [asset |-> Undefined, color |-> Undefined]

\* obj[key] = value: an existing key keeps its place, a new key goes last.
Put(obj, key, value) ==
    LET entry == [key |-> key, asset |-> value.asset, color |-> value.color]
    IN IF key \in Keys(obj)
       THEN [i \in DOMAIN obj |-> IF obj[i].key = key THEN entry ELSE obj[i]]
       ELSE Append(obj, entry)

\* Array.prototype.find on categories by id: the first match, or Undefined.
FindCategoryName(cats, id) ==
    IF \E i \in DOMAIN cats : cats[i].id = id
    THEN cats[CHOOSE i \in DOMAIN cats :
                 /\ cats[i].id = id
                 /\ \A j \in DOMAIN cats : cats[j].id = id => i <= j].name
    ELSE Undefined

CategoryByName(cats, name) ==
    cats[CHOOSE i \in DOMAIN cats :
            /\ cats[i].name = name
            /\ \A j \in DOMAIN cats : cats[j].name = name => i <= j]

CategoryNames(cats) == {cats[i].name : i \in DOMAIN cats}

PaletteColors(cats) == UNION {Range(cats[i].colors) : i \in DOMAIN cats}

----------------------------------------------------------------------------
(* applyLockedAssets *)

\* LockGroups recording only the first asset that locks a category.
RECURSIVE LockGroupsFirstOnly(_, _, _, _)
LockGroupsFirstOnly(asset, j, cats, acc) ==
    IF j > Len(asset.lockedGroups) \/ ~acc.ok THEN acc
    ELSE LET categoryName == FindCategoryName(cats, asset.lockedGroups[j])
             lockingAssetCategoryName == FindCategoryName(cats, asset.group)
             entry == [name |-> asset.name,
                       categoryName |-> lockingAssetCategoryName]
             lg == acc.lockedGroups
         IN IF categoryName = Undefined \/ lockingAssetCategoryName = Undefined
            THEN [acc EXCEPT !.ok = FALSE]
            ELSE LockGroupsFirstOnly(asset, j + 1, cats,
                   [acc EXCEPT !.lockedGroups =
                       IF categoryName \in DOMAIN lg
                       THEN lg
                       ELSE lg @@ (categoryName :> <<entry>>)])

\* One pass of the inner forEach, from the j-th locked group id on.  acc is
\* [ok, lockedGroups]; ok turns FALSE when find(...) returns undefined and
\* reading .name throws.
RECURSIVE LockGroups(_, _, _, _)
LockGroups(asset, j, cats, acc) ==
    IF j > Len(asset.lockedGroups) \/ ~acc.ok THEN acc
    ELSE LET categoryName == FindCategoryName(cats, asset.lockedGroups[j])
             lockingAssetCategoryName == FindCategoryName(cats, asset.group)
             entry == [name |-> asset.name,
                       categoryName |-> lockingAssetCategoryName]
             lg == acc.lockedGroups
         IN IF categoryName = Undefined \/ lockingAssetCategoryName = Undefined
            THEN [acc EXCEPT !.ok = FALSE]
            ELSE LockGroups(asset, j + 1, cats,
                   [acc EXCEPT !.lockedGroups =
                       IF categoryName \in DOMAIN lg
                       THEN [lg EXCEPT ![categoryName] = Append(@, entry)]
                       ELSE lg @@ (categoryName :> <<entry>>)])

\* The outer forEach over Object.values(customization), from entry i on.
RECURSIVE LockEntries(_, _, _, _)
LockEntries(cust, i, cats, acc) ==
    IF i > Len(cust) \/ ~acc.ok THEN acc
    ELSE LockEntries(cust, i + 1, cats,
           IF IsAsset(cust[i].asset)
           THEN LockGroups(AssetById(cust[i].asset), 1, cats, acc)
           ELSE acc)

\* The lockedGroups object applyLockedAssets builds, and whether it got as far
\* as set({ lockedGroups }).
applyLockedAssets(cust, cats) ==
    LockEntries(cust, 1, cats, [ok |-> TRUE, lockedGroups |-> <<>>])

----------------------------------------------------------------------------
(* fetchCategories: the join and the initial customization *)

\* category.assets = assets.filter((asset) => asset.group === category.id)
JoinAssets(category, as) ==
    LET InGroup(a) == a.group = category.id
    IN [id |-> category.id, name |-> category.name,
        removable |-> category.removable,
        startingAsset |-> category.startingAsset,
        colorPalette |-> category.colorPalette, colors |-> category.colors,
        assets |-> SelectSeq(as, InGroup)]

JoinAll(cats, as) == [i \in DOMAIN cats |-> JoinAssets(cats[i], as)]

\* FirstColor without its `|| ""`.
FirstColorNoDefault(category) ==
    IF category.colorPalette # "" /\ Len(category.colors) > 0
    THEN category.colors[1] ELSE Undefined

\* category.expand?.colorPalette?.colors?.[0] || ""
FirstColor(category) ==
    IF category.colorPalette # "" /\ Len(category.colors) > 0
    THEN category.colors[1] ELSE EmptyString

\* category.assets.find((asset) => asset.id === category.startingAsset), for
\* a category that declares a starting asset; the property stays unset otherwise.
StartingAssetOf(category) ==
    IF category.startingAsset = "" THEN Undefined
    ELSE IF \E i \in DOMAIN category.assets :
              category.assets[i].id = category.startingAsset
         THEN category.startingAsset
         ELSE Undefined

RECURSIVE InitialCustomization(_, _, _)
InitialCustomization(cats, i, acc) ==
    IF i > Len(cats) THEN acc
    ELSE InitialCustomization(cats, i + 1,
           Put(acc, cats[i].name,
               [asset |-> StartingAssetOf(cats[i]),
                color |-> FirstColor(cats[i])]))

----------------------------------------------------------------------------
(* randomize *)

\* randInt(low, high) = low + floor(random() * (high - low + 1))
RandInt(low, high) == IF high < low THEN {low} ELSE low..high

HasPalette(category) == category.colorPalette # ""

\* The draws one category consumes: the asset index, the removal draw (taken
\* only for a removable category) and the colour index (taken only when the
\* category has a palette).
DrawsFor(category) ==
    [asset : RandInt(0, Len(category.assets) - 1),
     remove : IF category.removable
              THEN RandInt(0, Len(category.assets) - 1) ELSE {1},
     color : IF HasPalette(category)
             THEN RandInt(0, Len(category.colors) - 1) ELSE {0}]

\* The sequences of draws one pass may consume, category by category.
RECURSIVE DrawChoicesUpTo(_, _)
DrawChoicesUpTo(cats, n) ==
    IF n = 0 THEN {<<>>}
    ELSE {Append(d, x) : d \in DrawChoicesUpTo(cats, n - 1),
                         x \in DrawsFor(cats[n])}

DrawChoices(cats) == DrawChoicesUpTo(cats, Len(cats))

RandomAsset(category, d) ==
    IF category.removable /\ d.remove = 0 THEN Null
    ELSE IF d.asset + 1 <= Len(category.assets)
         THEN category.assets[d.asset + 1].id
         ELSE Undefined

RandomColor(category, d) ==
    IF HasPalette(category) /\ d.color + 1 <= Len(category.colors)
    THEN category.colors[d.color + 1]
    ELSE Undefined

\* The forEach of randomize from category i on; acc is the customization being
\* built and the skin colour, which is written while the pass is running.
RECURSIVE RandomizePass(_, _, _, _)
RandomizePass(cats, i, draws, acc) ==
    IF i > Len(cats) THEN acc
    ELSE LET randomAsset == RandomAsset(cats[i], draws[i])
             randomColor == RandomColor(cats[i], draws[i])
         IN RandomizePass(cats, i + 1, draws,
              [customization |->
                  Put(acc.customization, cats[i].name,
                      [asset |-> randomAsset, color |-> randomColor]),
               skin |-> IF cats[i].name = SkinDriver
                        THEN ColorSet(acc.skin, randomColor) ELSE acc.skin])

----------------------------------------------------------------------------
(* The store *)

Init ==
    /\ remote \in Remotes
    /\ mode = UI_MODES.CUSTOMIZE
    /\ pose = PHOTO_POSES.IDLE
    /\ categories = <<>>
    /\ currentCategory = Null
    /\ assets = <<>>
    /\ lockedGroups = <<>>
    /\ skin = DefaultSkin
    /\ customization = <<>>
    /\ pending = 0
    /\ mounted = FALSE
    /\ error = NoError

\* The first render: AssetsBox mounts and its effect calls fetchCategories().
mountUI ==
    /\ ~mounted
    /\ mounted' = TRUE
    /\ pending' = pending + 1
    /\ UNCHANGED <<remote, mode, pose, store, error>>

\* Whether the render after setMode(m) mounts a new AssetsBox: AssetsBox is
\* rendered in customize mode only.
Remounts(m) == mounted /\ mode = UI_MODES.PHOTO /\ m = UI_MODES.CUSTOMIZE

\* setMode without its reset of the pose.
setModeKeepPose(m) ==
    /\ Remounts(m) => pending < MaxPending
    /\ mode' = m
    /\ pose' = pose
    /\ pending' = IF Remounts(m) THEN pending + 1 ELSE pending
    /\ error' = NoError
    /\ UNCHANGED <<remote, store, mounted>>

\* setMode, and the render that follows it: a newly mounted AssetsBox runs its
\* effect, which calls fetchCategories().
setMode(m) ==
    /\ Remounts(m) => pending < MaxPending
    /\ mode' = m
    /\ pose' = IF m = UI_MODES.CUSTOMIZE THEN PHOTO_POSES.IDLE ELSE pose
    /\ pending' = IF Remounts(m) THEN pending + 1 ELSE pending
    /\ error' = NoError
    /\ UNCHANGED <<remote, store, mounted>>

setPose(p) ==
    /\ pose' = p
    /\ error' = NoError
    /\ UNCHANGED <<remote, mode, store, pending, mounted>>

\* updateSkin(color): get().skin.color.set(color)
updateSkin(current, color) == ColorSet(current, color)

\* The customization updateColor writes.
ColorUpdated(cust, name, color) ==
    Put(cust, name, [asset |-> Get(cust, name).asset, color |-> color])

\* updateColor without its test for the "Head" category.
updateColorAnySkin(color) ==
    IF currentCategory = Null
    THEN /\ error' = TypeError
         /\ UNCHANGED <<remote, mode, pose, store, pending, mounted>>
    ELSE /\ customization' = ColorUpdated(customization, currentCategory, color)
         /\ skin' = updateSkin(skin, color)
         /\ error' = NoError
         /\ UNCHANGED <<remote, mode, pose, categories, currentCategory, assets,
                        lockedGroups, pending, mounted>>

updateColor(color) ==
    IF currentCategory = Null
    THEN \* state.currentCategory.name throws inside the updater
         /\ error' = TypeError
         /\ UNCHANGED <<remote, mode, pose, store, pending, mounted>>
    ELSE /\ customization' = ColorUpdated(customization, currentCategory, color)
         /\ skin' = IF currentCategory = SkinDriver
                    THEN updateSkin(skin, color) ELSE skin
         /\ error' = NoError
         /\ UNCHANGED <<remote, mode, pose, categories, currentCategory, assets,
                        lockedGroups, pending, mounted>>

setCurrentCategory(category) ==
    /\ currentCategory' = category
    /\ error' = NoError
    /\ UNCHANGED <<remote, mode, pose, categories, assets, lockedGroups, skin,
                   customization, pending, mounted>>

\* AssetChanged adding an entry on every call instead of writing the
\* category's own.
AssetChangedAppend(cust, category, asset) ==
    Append(cust, [key |-> category, asset |-> asset,
                  color |-> Get(cust, category).color])

\* AssetChanged without its spread of the category's entry.
AssetChangedNoSpread(cust, category, asset) ==
    Put(cust, category, [asset |-> asset, color |-> Undefined])

\* The customization changeAsset writes.
AssetChanged(cust, category, asset) ==
    Put(cust, category, [asset |-> asset, color |-> Get(cust, category).color])

\* set({ customization }) followed by get().applyLockedAssets(): when the
\* latter throws, the customization written before it stays.
SetAndLock(cust, cats) ==
    LET r == applyLockedAssets(cust, cats)
    IN /\ customization' = cust
       /\ lockedGroups' = IF r.ok THEN r.lockedGroups ELSE lockedGroups
       /\ error' = IF r.ok THEN NoError ELSE TypeError

\* changeAsset without its call of applyLockedAssets.
changeAssetUnlocked(category, asset) ==
    /\ customization' = AssetChanged(customization, category, asset)
    /\ error' = NoError
    /\ UNCHANGED <<remote, mode, pose, categories, currentCategory, assets,
                   lockedGroups, skin, pending, mounted>>

changeAsset(category, asset) ==
    /\ UNCHANGED <<remote, mode, pose, categories, currentCategory, assets,
                   skin, pending, mounted>>
    /\ SetAndLock(AssetChanged(customization, category, asset), categories)

\* randomize as it would be if reading an asset of a category without assets
\* threw instead of giving undefined.
randomizeIndexing(draws) ==
    LET r == RandomizePass(categories, 1, draws,
                           [customization |-> <<>>, skin |-> skin])
    IN IF \E i \in DOMAIN categories : Len(categories[i].assets) = 0
       THEN /\ error' = TypeError
            /\ UNCHANGED <<remote, mode, pose, store, pending, mounted>>
       ELSE /\ SetAndLock(r.customization, categories)
            /\ skin' = r.skin
            /\ UNCHANGED <<remote, mode, pose, categories, currentCategory,
                           assets, pending, mounted>>

randomize(draws) ==
    LET r == RandomizePass(categories, 1, draws,
                           [customization |-> <<>>, skin |-> skin])
    IN /\ SetAndLock(r.customization, categories)
       /\ skin' = r.skin
       /\ UNCHANGED <<remote, mode, pose, categories, currentCategory, assets,
                      pending, mounted>>

\* fetchCategories after its two awaits: the categories list and the assets
\* list have arrived and the rest of the function runs.
fetchCategoriesResolved ==
    LET cats == JoinAll(RemoteCategories(remote), RemoteAssets(remote))
    IN /\ pending > 0
       /\ pending' = pending - 1
       /\ categories' = cats
       /\ currentCategory' = IF Len(cats) > 0 THEN cats[1].name ELSE Undefined
       /\ assets' = RemoteAssets(remote)
       /\ SetAndLock(InitialCustomization(cats, 1, <<>>), cats)
       /\ UNCHANGED <<remote, mode, pose, skin, mounted>>

\* fetchCategories as it would be if it stored the categories before asking
\* for the assets, the second request failing.
fetchCategoriesRejectedPartial ==
    /\ pending > 0
    /\ pending' = pending - 1
    /\ categories' = JoinAll(RemoteCategories(remote), <<>>)
    /\ error' = FetchError
    /\ UNCHANGED <<remote, mode, pose, currentCategory, assets, lockedGroups,
                   skin, customization, mounted>>

\* Either request fails: the promise fetchCategories returned rejects.
fetchCategoriesRejected ==
    /\ pending > 0
    /\ pending' = pending - 1
    /\ error' = FetchError
    /\ UNCHANGED <<remote, mode, pose, store, mounted>>

----------------------------------------------------------------------------
(* Calls on the store with any arguments *)

CategoryArgs == CategoryNames(categories) \cup {UnknownCategory}

\* The assets a call may pass for a category: the category's own or, for a
\* name that is no category, the newest loaded asset; and null.
AssetArgs(category) ==
    (IF category \in CategoryNames(categories)
     THEN {a.id : a \in {b \in Range(assets) :
              b.group = CategoryByName(categories, category).id}}
     ELSE {assets[i].id : i \in DOMAIN assets \cap {1}})
    \cup {Null}

\* The colours a call may pass: the current category's palette, or a colour
\* outside it.
ColorArgs ==
    (IF currentCategory \in CategoryNames(categories)
     THEN Range(CategoryByName(categories, currentCategory).colors) ELSE {})
    \cup {ForeignColor}

CallSetMode == \E m \in Modes : setMode(m)

CallSetPose == \E p \in Poses : setPose(p)

CallUpdateColor == \E color \in ColorArgs : updateColor(color)

CallSetCurrentCategory ==
    \E name \in CategoryNames(categories) : setCurrentCategory(name)

CallChangeAsset ==
    \E category \in CategoryArgs : \E asset \in AssetArgs(category) :
        changeAsset(category, asset)

CallRandomize == \E draws \in DrawChoices(categories) : randomize(draws)

Next ==
    \/ mountUI
    \/ fetchCategoriesResolved
    \/ fetchCategoriesRejected
    \/ CallSetMode
    \/ CallSetPose
    \/ CallUpdateColor
    \/ CallSetCurrentCategory
    \/ CallChangeAsset
    \/ CallRandomize

Spec == Init /\ [][Next]_vars

----------------------------------------------------------------------------
(* The UI: what the components on screen let the user do *)

Customizing == mounted /\ mode = UI_MODES.CUSTOMIZE

HasCurrent == currentCategory \in CategoryNames(categories)

Current == CategoryByName(categories, currentCategory)

\* UI: {currentCategory?.colorPalette && customization[currentCategory.name]
\* && <ColorPicker />}; ColorPicker returns null unless the current category
\* has an asset selected.
ColorPickerShown ==
    /\ Customizing
    /\ HasCurrent
    /\ Current.colorPalette # ""
    /\ currentCategory \in Keys(customization)
    /\ IsAsset(Get(customization, currentCategory).asset)

\* ColorPicker offering the colours of every palette.
ClickColorAnyPalette ==
    /\ ColorPickerShown
    /\ \E color \in PaletteColors(categories) : updateColor(color)

\* A colour swatch of ColorPicker.
ClickColor ==
    /\ ColorPickerShown
    /\ \E color \in Range(Current.colors) : updateColor(color)

\* A category tab of AssetsBox.
ClickCategory ==
    /\ Customizing
    /\ \E i \in DOMAIN categories : setCurrentCategory(categories[i].name)

\* The remove button of AssetsBox, shown for a removable current category.
ClickRemove ==
    /\ Customizing
    /\ HasCurrent
    /\ Current.removable
    /\ changeAsset(currentCategory, Null)

\* An asset button of AssetsBox.
ClickAsset ==
    /\ Customizing
    /\ HasCurrent
    /\ \E i \in DOMAIN Current.assets :
          changeAsset(currentCategory, Current.assets[i].id)

\* RandomizeButton, shown in both modes.
ClickRandomize ==
    /\ mounted
    /\ \E draws \in DrawChoices(categories) : randomize(draws)

\* The two mode buttons of UI.
ClickMode ==
    /\ mounted
    /\ \E m \in Modes : setMode(m)

\* A pose button of PosesBox, shown in photo mode.
ClickPose ==
    /\ mounted
    /\ mode = UI_MODES.PHOTO
    /\ \E p \in Poses : setPose(p)

NextUI ==
    \/ mountUI
    \/ fetchCategoriesResolved
    \/ fetchCategoriesRejected
    \/ ClickColor
    \/ ClickCategory
    \/ ClickRemove
    \/ ClickAsset
    \/ ClickRandomize
    \/ ClickMode
    \/ ClickPose

SpecUI == Init /\ [][NextUI]_vars

----------------------------------------------------------------------------
(* The store write by write.  changeAsset, randomize and fetchCategories   *)
(* each call set(...) with the new customization and then                  *)
(* get().applyLockedAssets(), which calls set({ lockedGroups }); zustand   *)
(* runs its listeners inside every set.  Here each set is a step of its    *)
(* own; error is Running while a handler is between its two calls, and no  *)
(* other handler starts meanwhile.                                         *)

Running == "running"

\* set((state) => ({ customization: ... })) of changeAsset
changeAssetSet(category, asset) ==
    /\ error # Running
    /\ customization' = AssetChanged(customization, category, asset)
    /\ error' = Running
    /\ UNCHANGED <<remote, mode, pose, categories, currentCategory, assets,
                   lockedGroups, skin, pending, mounted>>

\* The forEach of randomize, with its updateSkin calls, and set({ customization })
randomizeSet(draws) ==
    LET r == RandomizePass(categories, 1, draws,
                           [customization |-> <<>>, skin |-> skin])
    IN /\ error # Running
       /\ customization' = r.customization
       /\ skin' = r.skin
       /\ error' = Running
       /\ UNCHANGED <<remote, mode, pose, categories, currentCategory, assets,
                      lockedGroups, pending, mounted>>

\* set({ categories, currentCategory, assets, customization }) of
\* fetchCategories, once both lists have arrived
fetchCategoriesSet ==
    LET cats == JoinAll(RemoteCategories(remote), RemoteAssets(remote))
    IN /\ error # Running
       /\ pending > 0
       /\ pending' = pending - 1
       /\ categories' = cats
       /\ currentCategory' = IF Len(cats) > 0 THEN cats[1].name ELSE Undefined
       /\ assets' = RemoteAssets(remote)
       /\ customization' = InitialCustomization(cats, 1, <<>>)
       /\ error' = Running
       /\ UNCHANGED <<remote, mode, pose, lockedGroups, skin, mounted>>

\* get().applyLockedAssets(), the call that ends the three handlers
applyLockedAssetsCall ==
    LET r == applyLockedAssets(customization, categories)
    IN /\ error = Running
       /\ lockedGroups' = IF r.ok THEN r.lockedGroups ELSE lockedGroups
       /\ error' = IF r.ok THEN NoError ELSE TypeError
       /\ UNCHANGED <<remote, mode, pose, categories, currentCategory, assets,
                      skin, customization, pending, mounted>>

Idle == error # Running

WriteMount == Idle /\ mountUI

WriteFetchRejected == Idle /\ fetchCategoriesRejected

WriteSetMode == Idle /\ CallSetMode

WriteSetCurrentCategory == Idle /\ CallSetCurrentCategory

WriteChangeAsset ==
    \E category \in CategoryArgs : \E asset \in AssetArgs(category) :
        changeAssetSet(category, asset)

WriteRandomize == \E draws \in DrawChoices(categories) : randomizeSet(draws)

NextWrites ==
    \/ WriteMount
    \/ WriteFetchRejected
    \/ WriteSetMode
    \/ WriteSetCurrentCategory
    \/ WriteChangeAsset
    \/ WriteRandomize
    \/ fetchCategoriesSet
    \/ applyLockedAssetsCall

SpecWrites == Init /\ [][NextWrites]_vars

----------------------------------------------------------------------------
(* The renderer: Avatar mounts one Asset per key of customization whose    *)
(* asset has a model file, and Asset draws its meshes unless its category  *)
(* has an entry in lockedGroups.                                           *)

\* customization[key]?.asset?.url && <Asset categoryName={key} ... />
AvatarMounts(key) ==
    /\ key \in Keys(customization)
    /\ IsAsset(Get(customization, key).asset)
    /\ AssetById(Get(customization, key).asset).url # EmptyString

\* Asset drawing whatever lockedGroups holds.
AssetIgnoringLocks(categoryName) == TRUE

\* Whether Asset returns its skinned meshes rather than null.
Asset(categoryName) == categoryName \notin DOMAIN lockedGroups

Displayed(key) == AvatarMounts(key) /\ Asset(key)

----------------------------------------------------------------------------
(* The suppression map, stated from its description rather than computed as *)
(* applyLockedAssets computes it.                                          *)

Loaded == categories # <<>>

\* Every (selected asset, locked id) pair, in customization order and, within
\* one asset, in the order of its lockedGroups.
RECURSIVE LockPairs(_, _)
LockPairs(cust, i) ==
    IF i > Len(cust) THEN <<>>
    ELSE (IF IsAsset(cust[i].asset)
          THEN LET a == AssetById(cust[i].asset)
               IN [j \in 1..Len(a.lockedGroups) |->
                      [asset |-> a, group |-> a.lockedGroups[j]]]
          ELSE <<>>) \o LockPairs(cust, i + 1)

\* Every id a pair refers to names a loaded category.
Resolvable(cust, cats) ==
    \A k \in DOMAIN LockPairs(cust, 1) :
        LET p == LockPairs(cust, 1)[k]
        IN /\ FindCategoryName(cats, p.group) # Undefined
           /\ FindCategoryName(cats, p.asset.group) # Undefined

DerivedLocks(cust, cats) ==
    LET pairs == LockPairs(cust, 1)
        Locked(p) == FindCategoryName(cats, p.group)
    IN [X \in {Locked(pairs[k]) : k \in DOMAIN pairs} |->
          LET Hits(p) == Locked(p) = X
              hits == SelectSeq(pairs, Hits)
          IN [k \in DOMAIN hits |->
                 [name |-> hits[k].asset.name,
                  categoryName |-> FindCategoryName(cats, hits[k].asset.group)]]]

\* The selected asset of category `name`, when it is one of that category's own.
OwnSelected(name) ==
    /\ name \in Keys(customization)
    /\ IsAsset(Get(customization, name).asset)
    /\ FindCategoryName(categories,
                        AssetById(Get(customization, name).asset).group) = name

\* The categories the asset locks.
LockedNames(asset) ==
    {FindCategoryName(categories, asset.lockedGroups[j]) :
        j \in DOMAIN asset.lockedGroups} \ {Undefined}

\* The entries of customization whose asset locks category X.
LockersOf(X) ==
    {i \in DOMAIN customization :
        /\ IsAsset(customization[i].asset)
        /\ X \in LockedNames(AssetById(customization[i].asset))}

----------------------------------------------------------------------------
(* Claims *)

C2_LockSoundness ==
    Loaded =>
      \A i \in DOMAIN customization :
        OwnSelected(customization[i].key) =>
          LET a == AssetById(customization[i].asset)
          IN \A X \in LockedNames(a) :
                /\ X \in DOMAIN lockedGroups
                /\ \E k \in DOMAIN lockedGroups[X] :
                      lockedGroups[X][k] =
                          [name |-> a.name, categoryName |-> customization[i].key]

\* C3: when category X is locked by exactly one selected asset, selected in
\* its owning category K, changeAsset(K, null) leaves lockedGroups without the
\* key X and leaves X's selection as it was.
C3_LockReversibility ==
    [][\A K \in CategoryNames(categories), X \in CategoryNames(categories) :
          ( /\ OwnSelected(K)
            /\ LockersOf(X) = {i \in DOMAIN customization :
                                  customization[i].key = K}
            /\ X \in DOMAIN lockedGroups
            /\ changeAsset(K, Null) )
          => /\ X \notin DOMAIN lockedGroups'
             /\ Get(customization', X) = Get(customization, X)]_vars

\* C4: changeAsset(K, a) writes only the asset of K's entry and updateColor(c)
\* writes only the colour of the current category's entry; every other entry
\* is as it was and no entry vanishes.
C4_CategoryScoped ==
    [][/\ \A K \in CategoryArgs : \A a \in AssetArgs(K) :
            changeAsset(K, a) =>
              /\ Get(customization', K) =
                    [asset |-> a, color |-> Get(customization, K).color]
              /\ Keys(customization') = Keys(customization) \cup {K}
              /\ \A x \in Keys(customization) \ {K} :
                    Get(customization', x) = Get(customization, x)
       /\ \A c \in ColorArgs :
            (currentCategory # Null /\ updateColor(c)) =>
              /\ Get(customization', currentCategory) =
                    [asset |-> Get(customization, currentCategory).asset,
                     color |-> c]
              /\ Keys(customization') = Keys(customization) \cup {currentCategory}
              /\ \A x \in Keys(customization) \ {currentCategory} :
                    Get(customization', x) = Get(customization, x)]_vars

\* C4 witness: an asset was changed in a category whose colour had been
\* changed, and the colour is still there, next to another category's entry.
C4_Witness ==
    /\ remote = 1
    /\ Get(customization, "Hat") = [asset |-> "hat1", color |-> "blue"]
    /\ Get(customization, "Head") = [asset |-> "head1", color |-> "pink"]

\* C5: after the initial load the customization has exactly one entry per
\* loaded category and no other entry.
C5_OneEntryPerCategory ==
    Loaded =>
      /\ Keys(customization) = CategoryNames(categories)
      /\ Len(customization) = Cardinality(CategoryNames(categories))

\* C6: changeAsset with a category that is not in the loaded catalog fails
\* with InvalidCategory and leaves customization and lockedGroups as they were.
C6_InvalidCategory ==
    [][\A a \in AssetArgs(UnknownCategory) :
          (Loaded /\ changeAsset(UnknownCategory, a))
          => /\ error' = "InvalidCategory"
             /\ UNCHANGED <<customization, lockedGroups>>]_vars

\* C7: updateColor(c) stores c as the colour of the current category; the
\* skin material takes the colour c names when the current category is
\* "Head" and keeps its colour when it is any other category.
C7_UpdateColor ==
    [][\A c \in ColorArgs :
          (currentCategory # Null /\ updateColor(c))
          => /\ Get(customization', currentCategory).color = c
             /\ skin' = IF currentCategory = "Head" THEN ColorHex[c] ELSE skin]_vars

\* C7 witness: Head's colour was set and the skin followed it, then another
\* category's colour was set and the skin stayed.
C7_Witness ==
    /\ remote = 1
    /\ Get(customization, "Head").color = "pink"
    /\ skin = ColorHex["pink"]
    /\ Get(customization, "Hat").color = "blue"

\* C8: when fetchCategories completes, every loaded category has an entry
\* with the first colour of its palette (the empty string without a palette)
\* and its declared starting asset (none without one), currentCategory is the
\* first category and lockedGroups is derived from these selections.
C8_InitialState ==
    [][(fetchCategoriesResolved /\ error' = NoError)
       => LET cats == RemoteCategories(remote)
          IN /\ Keys(customization') = CategoryNames(cats)
             /\ \A i \in DOMAIN cats :
                   Get(customization', cats[i].name) =
                      [asset |-> IF cats[i].startingAsset # ""
                                 THEN cats[i].startingAsset ELSE Undefined,
                       color |-> IF Len(cats[i].colors) > 0
                                 THEN cats[i].colors[1] ELSE EmptyString]
             /\ currentCategory' = cats[1].name
             /\ lockedGroups' = DerivedLocks(customization', categories')]_vars

\* C8 witness: the state a load leaves, with a starting asset that locks two
\* categories and with categories that have no palette.
C8_Witness ==
    /\ remote = 2
    /\ pending = 0
    /\ currentCategory = "Top"
    /\ Get(customization, "Top") = [asset |-> Undefined, color |-> EmptyString]
    /\ Get(customization, "Suit") = [asset |-> Undefined, color |-> "red"]
    /\ Get(customization, "Cape") = [asset |-> "cape1", color |-> EmptyString]
    /\ DOMAIN lockedGroups = {"Top", "Suit"}

\* C9: once the catalog is loaded, nothing but a selection made by the user
\* changes a selection or the suppression map: a mode switch, a pose and the
\* mounting of the components the mode shows leave both as they were.
C9_ModeSwitchKeepsSelection ==
    [][(Loaded /\ (ClickMode \/ ClickPose \/ fetchCategoriesResolved
                   \/ fetchCategoriesRejected))
       => UNCHANGED <<customization, lockedGroups>>]_vars

\* C10: fetchCategories is started once, by the first render, and once
\* loaded the categories, their palettes and their assets stay as loaded.
C10_LoadedOnce ==
    [][/\ pending' > pending => ~mounted
       /\ Loaded => categories' = categories]_vars

\* C11: a call of changeAsset, updateColor or randomize either completes,
\* with lockedGroups recomputed from the customization it wrote, or fails and
\* leaves customization, lockedGroups and the skin material as they were.
C11_AllOrNothing ==
    [][(CallChangeAsset \/ CallUpdateColor \/ CallRandomize)
       => \/ /\ error' = NoError
             /\ applyLockedAssets(customization', categories).ok
             /\ lockedGroups' =
                   applyLockedAssets(customization', categories).lockedGroups
          \/ /\ error' # NoError
             /\ UNCHANGED <<customization, lockedGroups, skin>>]_vars

\* What a randomize call with the given draws leaves in a store that holds
\* the loaded categories, selections `cust` and suppression map `locks`.
RandomizedFrom(cust, locks, cats, draws) ==
    LET pass == RandomizePass(cats, 1, draws,
                              [customization |-> <<>>, skin |-> DefaultSkin])
        r == applyLockedAssets(pass.customization, cats)
    IN [customization |-> pass.customization,
        lockedGroups |-> IF r.ok THEN r.lockedGroups ELSE locks]

\* The selections and the suppression map right after the load.
AfterLoad(cats) ==
    LET cust == InitialCustomization(cats, 1, <<>>)
    IN [customization |-> cust,
        lockedGroups |-> applyLockedAssets(cust, cats).lockedGroups]

\* C12: with the same loaded catalog and the same draws, randomize leaves the
\* same customization, one entry per category, and the same lockedGroups,
\* whatever the store held before: the same as the call with these draws
\* leaves when made right after the load.
C12_RandomizeDeterministic ==
    [][\A draws \in DrawChoices(categories) :
          (Loaded /\ randomize(draws))
          => LET fresh == AfterLoad(categories)
                 pinned == RandomizedFrom(fresh.customization,
                                          fresh.lockedGroups, categories, draws)
             IN /\ customization' = pinned.customization
                /\ Keys(customization') = CategoryNames(categories)
                /\ Len(customization') = Len(categories)
                /\ lockedGroups' = pinned.lockedGroups]_vars

AssetIds(category) == {category.assets[k].id : k \in DOMAIN category.assets}

\* C13: randomize overrides a category's asset to none only when the category
\* is removable, and for every removable category with at least one asset
\* some draw leaves it with none and some draw leaves it with one of its
\* assets.
C13_RemovableBinaryChoice ==
    \A i \in DOMAIN categories :
        LET c == categories[i]
            outcomes == {RandomAsset(c, d) : d \in DrawsFor(c)}
        IN /\ ~c.removable => Null \notin outcomes
           /\ (c.removable /\ Len(c.assets) >= 1)
                 => /\ Null \in outcomes
                    /\ outcomes \cap AssetIds(c) # {}

\* C14: after randomize every category with a non-empty palette has one of
\* the palette's colours, and every category without one has the empty
\* colour, the value the load gave it.  Calls that fail are left to C11.
C14_RandomizeColours ==
    [][\A draws \in DrawChoices(categories) :
          (Loaded /\ randomize(draws) /\ error' = NoError)
          => \A i \in DOMAIN categories :
                LET c == categories[i]
                    color == Get(customization', c.name).color
                IN IF HasPalette(c) /\ Len(c.colors) > 0
                   THEN color \in Range(c.colors)
                   ELSE /\ color = EmptyString
                        /\ color = Get(AfterLoad(categories).customization,
                                       c.name).color]_vars

HasEmptyCategory(cats) == \E i \in DOMAIN cats : Len(cats[i].assets) = 0

\* C15: on a catalog that has a category with no assets, randomize completes,
\* leaves that category with no asset selected, gives every other category an
\* entry with one of its assets or none, and recomputes lockedGroups.
C15_RandomizeEmptyCategory ==
    [][\A draws \in DrawChoices(categories) :
          (HasEmptyCategory(categories) /\ randomize(draws))
          => /\ error' = NoError
             /\ Keys(customization') = CategoryNames(categories)
             /\ \A i \in DOMAIN categories :
                   LET c == categories[i]
                       chosen == Get(customization', c.name).asset
                   IN IF Len(c.assets) = 0
                      THEN ~IsAsset(chosen)
                      ELSE chosen \in AssetIds(c) \cup {Null}
             /\ lockedGroups' = DerivedLocks(customization', categories)]_vars

\* C15 witness: randomize has run on a catalog whose removable category has
\* no assets; that category has none, the other one has its asset and locks it.
C15_Witness ==
    /\ remote = 4
    /\ error = NoError
    /\ Get(customization, "Bag") = [asset |-> Null, color |-> Undefined]
    /\ Get(customization, "Ring") = [asset |-> "ring1", color |-> Undefined]
    /\ lockedGroups = ("Bag" :> <<[name |-> "Band", categoryName |-> "Ring"]>>)

\* The positions <<i, j>> at which the i-th entry of customization holds an
\* asset whose j-th locked id is category X.
Hits(X) ==
    UNION {LET locked == AssetById(customization[i].asset).lockedGroups
           IN {<<i, j>> : j \in {k \in DOMAIN locked :
                                    FindCategoryName(categories, locked[k]) = X}}
           : i \in {n \in DOMAIN customization :
                       IsAsset(customization[n].asset)}}

Before(p, q) == p[1] < q[1] \/ (p[1] = q[1] /\ p[2] < q[2])

Rank(X, p) == 1 + Cardinality({q \in Hits(X) : Before(q, p)})

\* C16: when the suppression map can be computed and category X is locked at
\* several places, lockedGroups[X] has exactly one entry per (selected asset,
\* occurrence of X in its lockedGroups), equal entries included, in
\* customization order and, within one asset, in the order of its list.
C16_EveryLockRecorded ==
    Resolvable(customization, categories) =>
      \A X \in CategoryNames(categories) :
        Cardinality(Hits(X)) >= 2 =>
          /\ X \in DOMAIN lockedGroups
          /\ Len(lockedGroups[X]) = Cardinality(Hits(X))
          /\ \A p \in Hits(X) :
                LET a == AssetById(customization[p[1]].asset)
                IN lockedGroups[X][Rank(X, p)] =
                      [name |-> a.name,
                       categoryName |-> FindCategoryName(categories, a.group)]

\* C16 witness: Top is locked by Armor, selected in Suit, and twice by Cloak,
\* selected in Cape and under one more key; the three entries are in this
\* order and the two equal ones are both there.
C16_Witness ==
    /\ remote = 2
    /\ error = NoError
    /\ Len(customization) = 4
    /\ "Top" \in DOMAIN lockedGroups
    /\ lockedGroups["Top"] =
          << [name |-> "Armor", categoryName |-> "Suit"],
             [name |-> "Cloak", categoryName |-> "Cape"],
             [name |-> "Cloak", categoryName |-> "Cape"] >>

\* C17: the renderer displays a category's asset exactly when the category
\* has a selected asset and no entry in lockedGroups, and a call that selects
\* in one category leaves the selection of every other category as it was,
\* also of a category that the call makes or keeps suppressed.
C17_DisplayedIffUnlocked ==
    [][/\ \A X \in CategoryNames(categories') :
            Displayed(X)' <=>
               /\ IsAsset(Get(customization', X).asset)
               /\ X \notin DOMAIN lockedGroups'
       /\ \A K \in CategoryArgs : \A a \in AssetArgs(K) :
            changeAsset(K, a) =>
               \A X \in DOMAIN lockedGroups' \ {K} :
                   Get(customization', X) = Get(customization, X)]_vars

\* C17 witness: Head has a selected asset and is suppressed by the Helmet
\* selected in Hat: the Helmet is displayed, Head's asset is not, and Head's
\* selection is still there.
C17_Witness ==
    /\ remote = 1
    /\ Get(customization, "Hat").asset = "hat1"
    /\ Get(customization, "Head").asset = "head1"
    /\ "Head" \in DOMAIN lockedGroups
    /\ Displayed("Hat")
    /\ ~Displayed("Head")

\* C18: when a request of fetchCategories fails, the call fails to its
\* caller, categories, assets, currentCategory, customization and
\* lockedGroups are as they were, and no other fetch is started.
C18_FetchFailureKeepsStore ==
    [][fetchCategoriesRejected
       => /\ error' = FetchError
          /\ UNCHANGED <<categories, assets, currentCategory, customization,
                         lockedGroups>>
          /\ pending' < pending]_vars

\* C18 witness: a fetch started by a later mount has failed on a store that
\* holds a loaded catalog and a selection made since: both are still there.
C18_Witness ==
    /\ remote = 1
    /\ error = FetchError
    /\ pending = 0
    /\ Loaded
    /\ assets = RemoteAssets(1)
    /\ currentCategory = "Hat"
    /\ Get(customization, "Hat").asset = "hat1"
    /\ "Head" \in DOMAIN lockedGroups

\* C19: under the actions the UI offers, once the catalog is loaded the
\* colour of every category with a non-empty palette is one of the colours of
\* that category's palette.
C19_ColourInPalette ==
    Loaded =>
      \A i \in DOMAIN categories :
        (HasPalette(categories[i]) /\ Len(categories[i].colors) > 0)
          => Get(customization, categories[i].name).color
                \in Range(categories[i].colors)

\* C19 witness: in photo mode, after swatches and randomize were used, both
\* categories hold a colour of their own palette that is not its first one.
C19_Witness ==
    /\ remote = 1
    /\ mode = UI_MODES.PHOTO
    /\ Get(customization, "Hat") = [asset |-> "hat2", color |-> "blue"]
    /\ Get(customization, "Head").color = "pink"

\* C20: under the actions the UI offers, setMode(customize) leaves the pose
\* Idle and setMode(photo) leaves the pose as it was, and in every state in
\* which the mode is customize the pose is Idle.
C20_CustomizeMeansIdle ==
    [][/\ mode = UI_MODES.CUSTOMIZE => pose = PHOTO_POSES.IDLE
       /\ mode' = UI_MODES.CUSTOMIZE => pose' = PHOTO_POSES.IDLE
       /\ setMode(UI_MODES.CUSTOMIZE) => pose' = PHOTO_POSES.IDLE
       /\ setMode(UI_MODES.PHOTO) => pose' = pose]_vars

\* C20 witness: the mode is customize again after a stay in photo mode (the
\* fetch of the remounted AssetsBox is still waiting) and the pose is Idle.
C20_Witness ==
    /\ Loaded
    /\ mode = UI_MODES.CUSTOMIZE
    /\ pose = PHOTO_POSES.IDLE
    /\ pending > 0

\* What changeAsset(category, asset) leaves in a store that holds the loaded
\* categories, selections `cust` and suppression map `locks`.
AssetChangedFrom(cust, locks, cats, category, asset) ==
    LET changed == AssetChanged(cust, category, asset)
        r == applyLockedAssets(changed, cats)
    IN [customization |-> changed,
        lockedGroups |-> IF r.ok THEN r.lockedGroups ELSE locks]

\* C21: after load, the store a call changeAsset(C, a) leaves is the store a
\* second changeAsset(C, a) made right after it leaves: same customization,
\* same lockedGroups, entry by entry.
C21_ChangeAssetIdempotent ==
    [][\A K \in CategoryArgs : \A a \in AssetArgs(K) :
          (Loaded /\ changeAsset(K, a))
          => AssetChangedFrom(customization', lockedGroups', categories', K, a)
                = [customization |-> customization',
                   lockedGroups |-> lockedGroups']]_vars

\* C21 witness: the Helmet was selected in Hat, the current category; Head is
\* locked by it once.
C21_Witness ==
    /\ remote = 1
    /\ error = NoError
    /\ currentCategory = "Hat"
    /\ Get(customization, "Hat") = [asset |-> "hat1", color |-> "red"]
    /\ lockedGroups = ("Head" :> <<[name |-> "Helmet", categoryName |-> "Hat"]>>)

\* C22: while the categories are not loaded, no control of the UI that calls
\* changeAsset, updateColor or randomize can be used.
C22_GatedUntilLoaded ==
    ~Loaded =>
      /\ ~ENABLED ClickAsset
      /\ ~ENABLED ClickRemove
      /\ ~ENABLED ClickColor
      /\ ~ENABLED ClickRandomize

\* C23: once the skin material has been given a colour of the "Head"
\* category, by updateColor or by randomize, its colour is the colour stored
\* for "Head" in customization, in every later state.
C23_SkinFollowsHead ==
    skin # DefaultSkin =>
      LET color == Get(customization, SkinDriver).color
      IN /\ color \in DOMAIN ColorHex
         /\ skin = ColorHex[color]

\* The asset held for category c is none or one of c's own assets.
OwnOrNone(cust, c) ==
    LET chosen == Get(cust, c.name).asset
    IN IsAsset(chosen) =>
          /\ chosen \in AssetIds(c)
          /\ AssetById(chosen).group = c.id

\* Every entry of the suppression map names an asset that is selected under
\* the category the entry records as its owner.
OwnersAreSelectors(cust, locks) ==
    \A X \in DOMAIN locks : \A k \in DOMAIN locks[X] :
        LET chosen == Get(cust, locks[X][k].categoryName).asset
        IN /\ IsAsset(chosen)
           /\ AssetById(chosen).name = locks[X][k].name

\* C24: under the actions the UI offers, once the catalog is loaded every
\* category holds none or one of its own assets, every lockedGroups entry
\* records as owner the category under which its asset is selected, and a
\* category that is not removable and holds an asset holds one after every
\* step.
C24_OwnAssetsOnly ==
    [][Loaded =>
         /\ \A i \in DOMAIN categories : OwnOrNone(customization, categories[i])
         /\ OwnersAreSelectors(customization, lockedGroups)
         /\ \A i \in DOMAIN categories :
               ( /\ ~categories[i].removable
                 /\ IsAsset(Get(customization, categories[i].name).asset) )
               => IsAsset(Get(customization', categories[i].name).asset)]_vars

\* C25: after every single write to the store, the lockedGroups a subscriber
\* reads together with customization is the map derived from that
\* customization, whenever that map can be computed.
C25_NoStalePairing ==
    applyLockedAssets(customization, categories).ok
        => lockedGroups = applyLockedAssets(customization, categories).lockedGroups

====
